---- MODULE Spec2Model ----
(***************************************************************************)
(* Model of MetadataExtractionProcessor                                    *)
(* (server/apps/microservices/src/processors/metadata-extraction.          *)
(* processor.ts): the three bull handlers extractExifInfo,                 *)
(* reverseGeocoding and extractVideoMetadata, the asynchronous geocoder    *)
(* initialisation of the constructor, and the two tables they write (the   *)
(* asset table through assetRepository, the exif table through             *)
(* exifRepository).  Every await of a handler is one step of its job, so   *)
(* that jobs interleave exactly where the event loop can switch.           *)
(*                                                                         *)
(* Encoding of JavaScript values:                                          *)
(*   null / undefined tag or column  ->  Null  (the empty tuple)           *)
(*   a present value v               ->  Some(v) = <<v>>                   *)
(*   an entity property never assigned (undefined) -> the field is not in  *)
(*     the DOMAIN of the entity (a function from column names)             *)
(*   a string made by formatting     ->  the sequence of its pieces        *)
(*   a coordinate                    ->  an integer, tenths of a degree    *)
(*   a Date                          ->  the ISO string of its instant, or *)
(*                                       "Invalid Date"                    *)
(***************************************************************************)
EXTENDS Integers, Sequences, FiniteSets, TLC

Null == <<>>
Some(v) == <<v>>

\* JavaScript truthiness of an optional number / string / formatted string.
TruthyNum(o) == o # Null /\ o[1] # 0
TruthyStr(o) == o # Null /\ o[1] # ""
TruthySeq(o) == o # Null /\ o[1] # <<>>

\* `x || null` for the three kinds of value.
NumOrNull(o) == IF TruthyNum(o) THEN o ELSE Null
StrOrNull(o) == IF TruthyStr(o) THEN o ELSE Null

\* `a ?? b`: b only when a is null or undefined.
Coalesce(a, b) == IF a # Null THEN a ELSE b

Max(a, b) == IF a >= b THEN a ELSE b

(***************************************************************************)
(* Bounds of the model.                                                    *)
(***************************************************************************)
\* The durations a probe reports run over every whole second up to this one
\* (and the longer ones of LongDurations).
MaxSeconds == 130
\* Jobs (of the three kinds together) the dispatcher hands over in all.
MaxJobs == 3
\* Steps (tag read, probe, lookup, decode, repository call) that fail in all.
MaxFailures == 1

(***************************************************************************)
(* Number and date formatting.                                             *)
(***************************************************************************)
DigitChar == <<"0", "1", "2", "3", "4", "5", "6", "7", "8", "9">>

\* Number.prototype.toString for a non-negative integer: its decimal digits.
RECURSIVE NatToString(_)
NatToString(n) ==
    IF n < 10 THEN <<DigitChar[n + 1]>>
    ELSE NatToString(n \div 10) \o <<DigitChar[(n % 10) + 1]>>

\* `${n}` / n.toString() for an integer.
IntToString(n) == IF n < 0 THEN <<"-">> \o NatToString(0 - n) ELSE NatToString(n)

\* s.padStart(2, '0')
PadStart2(s) ==
    IF Len(s) >= 2 THEN s
    ELSE IF Len(s) = 1 THEN <<"0">> \o s
    ELSE <<"0", "0">>

\* A formatting that does not take the hours out of the minutes.
extractDurationMinutesOfAll(durationMs) ==
    LET videoDurationInSecond == durationMs \div 1000
        hours == videoDurationInSecond \div 3600
        minutes == videoDurationInSecond \div 60
        seconds == videoDurationInSecond - minutes * 60
    IN  NatToString(hours) \o <<":">> \o PadStart2(NatToString(minutes))
          \o <<":">> \o PadStart2(NatToString(seconds)) \o <<".000000">>

\* extractDuration (lines 366-374).  The probe reports seconds as a number
\* with a fraction; the model holds it in milliseconds, and
\* parseInt(duration.toString(), 0) keeps the whole seconds.
extractDuration(durationMs) ==
    LET videoDurationInSecond == durationMs \div 1000
        hours == videoDurationInSecond \div 3600
        minutes == (videoDurationInSecond - hours * 3600) \div 60
        seconds == videoDurationInSecond - hours * 3600 - minutes * 60
    IN  NatToString(hours) \o <<":">> \o PadStart2(NatToString(minutes))
          \o <<":">> \o PadStart2(NatToString(seconds)) \o <<".000000">>

\* The date strings of the model and the instant each denotes: new Date(s)
\* parses the string, toISOString() prints the instant in UTC, so two
\* spellings of one instant give one Date, and an unparseable string gives
\* the Invalid Date.
InvalidDate == "Invalid Date"
DateInstant ==
    [s \in {"2020-01-01T10:00:00.000Z", "2020-01-01T12:00:00+02:00",
            "2021-06-01T08:30:00.000Z", "2019-03-03T03:03:03.000Z",
            "2022-02-02T02:02:02.000Z", "0000:00:00 00:00:00"} |->
        CASE s = "2020-01-01T12:00:00+02:00" -> "2020-01-01T10:00:00.000Z"
          [] s = "0000:00:00 00:00:00" -> InvalidDate
          [] OTHER -> s]

\* new Date(s)
NewDate(s) == IF s \in DOMAIN DateInstant THEN DateInstant[s] ELSE InvalidDate

\* A date tag as exiftool hands it over: an ExifDateTime, or the raw string
\* when exiftool could not parse it.
ExifDateTimeTag(iso) == Some([kind |-> "ExifDateTime", v |-> iso])
StringDateTag(s) == Some([kind |-> "string", v |-> s])

\* exifToDate (lines 143-151): null for a missing or empty value, new Date
\* for a string, toDate() for an ExifDateTime.
exifToDate(exifDate) ==
    IF exifDate = Null \/ exifDate[1].v = "" THEN Null
    ELSE IF exifDate[1].kind = "string" THEN Some(NewDate(exifDate[1].v))
    ELSE Some(exifDate[1].v)

(***************************************************************************)
(* Reverse geocoding.                                                      *)
(***************************************************************************)
\* The gazetteer local-reverse-geocoder holds once loaded: GeoData rows
\* (lines 47-68), coordinates in tenths of a degree.
Gazetteer ==
    << [name |-> <<"Cupertino">>, countryCode |-> "US", latitude |-> 373,
        longitude |-> -1220,
        admin1Code |-> Some([name |-> <<"California">>]),
        admin2Code |-> Some([name |-> <<"Santa Clara County">>])],
       [name |-> <<"Paris">>, countryCode |-> "FR", latitude |-> 488,
        longitude |-> 23,
        admin1Code |-> Some([name |-> <<"Ile-de-France">>]),
        admin2Code |-> Null],
       [name |-> <<"Libreville">>, countryCode |-> "GA", latitude |-> 4,
        longitude |-> 94,
        admin1Code |-> Null,
        admin2Code |-> Null] >>

SqDist(p, latitude, longitude) ==
    (p.latitude - latitude) * (p.latitude - latitude)
      + (p.longitude - longitude) * (p.longitude - longitude)

\* geocoderLookup (lines 29-37): geocoder.lookUp(points, 1) answers the
\* nearest place, the first of the gazetteer among equally near ones.
geocoderLookup(latitude, longitude) ==
    LET best == CHOOSE i \in 1..Len(Gazetteer) :
                  \A j \in 1..Len(Gazetteer) :
                     \/ SqDist(Gazetteer[i], latitude, longitude)
                          < SqDist(Gazetteer[j], latitude, longitude)
                     \/ /\ SqDist(Gazetteer[i], latitude, longitude)
                             = SqDist(Gazetteer[j], latitude, longitude)
                        /\ i <= j
    IN  Gazetteer[best]

\* getName(countryCode, 'en') of i18n-iso-countries (line 109).
getName(countryCode) ==
    CASE countryCode = "US" -> <<"United States of America">>
      [] countryCode = "FR" -> <<"France">>
      [] countryCode = "GA" -> <<"Gabon">>

\* reverseGeocodeExif (lines 103-132): country, city and the state string
\* composed of the admin2 and admin1 names.
reverseGeocodeExif(latitude, longitude) ==
    LET geoCodeInfo == geocoderLookup(latitude, longitude)
        s0 == <<>>
        s1 == IF geoCodeInfo.admin2Code # Null
              THEN s0 \o geoCodeInfo.admin2Code[1].name ELSE s0
        s2 == IF geoCodeInfo.admin1Code # Null
              THEN (IF geoCodeInfo.admin2Code # Null
                       /\ geoCodeInfo.admin2Code[1].name # <<>>
                    THEN s1 \o <<", ">> ELSE s1)
                   \o geoCodeInfo.admin1Code[1].name
              ELSE s1
    IN  [country |-> Some(getName(geoCodeInfo.countryCode)),
         state |-> Some(s2),
         city |-> Some(geoCodeInfo.name)]

(***************************************************************************)
(* Location strings of container tags.                                     *)
(***************************************************************************)
\* A location string is held as its pieces: a signed decimal
\* ([+-][0-9]+\.[0-9]+) is a piece [num |-> TRUE, txt, val], where val is
\* what parseFloat makes of txt; the closing slash is the piece "/"; anything
\* else is a piece that no signed decimal ends in.
Dec(txt, val) == [num |-> TRUE, txt |-> txt, val |-> val]
Slash == [num |-> FALSE, txt |-> "/", val |-> 0]
Junk(txt) == [num |-> FALSE, txt |-> txt, val |-> 0]

\* location.match(/([+-][0-9]+\.[0-9]+)([+-][0-9]+\.[0-9]+)\/$/) (line 308):
\* the pattern is anchored at the end only, so it matches the last two
\* signed decimals before a final slash.  The match array (whole match and
\* two groups), or Null.
MatchLocation(location) ==
    LET n == Len(location)
    IN  IF n >= 3 /\ location[n] = Slash /\ location[n - 1].num
           /\ location[n - 2].num
        THEN Some(<<"match", location[n - 2], location[n - 1]>>)
        ELSE Null

\* The same with three groups (line 317).
MatchLocationISO6709(location) ==
    LET n == Len(location)
    IN  IF n >= 4 /\ location[n] = Slash /\ location[n - 1].num
           /\ location[n - 2].num /\ location[n - 3].num
        THEN Some(<<"match", location[n - 3], location[n - 2], location[n - 1]>>)
        ELSE Null

\* parseFloat of a matched group.
parseFloat(piece) == piece.val

(***************************************************************************)
(* The assets and their files.                                             *)
(***************************************************************************)
\* The assets of the library: one still image, one video.
AssetIds == {1, 2}
AssetType(id) == IF id = 1 THEN "IMAGE" ELSE "VIDEO"

\* The file name the upload gave; path.parse(fileName).name is `name`.
FileNameOf(id) ==
    IF id = 1 THEN [name |-> "IMG_0001", ext |-> ".HEIC"]
    ELSE [name |-> "IMG_0001", ext |-> ".MOV"]

\* The tags the handlers read from exiftool (ImmichTags, lines 17-19).
TagKeys ==
    {"DateTimeOriginal", "CreateDate", "ModifyDate", "Make", "Model",
     "ExifImageHeight", "ImageHeight", "ExifImageWidth", "ImageWidth",
     "ExposureTime", "Orientation", "LensModel", "FNumber", "FocalLength",
     "ISO", "GPSLatitude", "GPSLongitude", "MediaGroupUUID",
     "ContentIdentifier"}

\* No tag at all; also what `exifData?.X` reads when the read failed and
\* exifData is null.
EmptyTags == [k \in TagKeys |-> Null]

NoRaster == [height |-> Null, width |-> Null, orientation |-> Null]

\* Still-image files: the tags exiftool reads, the size fs.statSync reads,
\* the header sharp decodes.
ImageFull ==
    [tags |-> [EmptyTags EXCEPT
                 !.DateTimeOriginal = ExifDateTimeTag("2021-06-01T08:30:00.000Z"),
                 !.CreateDate = ExifDateTimeTag("2019-03-03T03:03:03.000Z"),
                 !.ModifyDate = ExifDateTimeTag("2022-02-02T02:02:02.000Z"),
                 !.Make = Some("Apple"), !.Model = Some("iPhone 12"),
                 !.ExifImageHeight = Some(3024), !.ImageHeight = Some(3000),
                 !.ExifImageWidth = Some(4032), !.ImageWidth = Some(4000),
                 !.ExposureTime = Some("1/100"), !.Orientation = Some(6),
                 !.LensModel = Some("back camera"), !.FNumber = Some(16),
                 !.FocalLength = Some(Dec("4.2 mm", 42)), !.ISO = Some(32),
                 !.GPSLatitude = Some(373), !.GPSLongitude = Some(-1220),
                 !.MediaGroupUUID = Some("X")],
     size |-> 2048,
     raster |-> [height |-> Some(3024), width |-> Some(4032),
                 orientation |-> Some(6)]]

ImageSparse ==
    [tags |-> [EmptyTags EXCEPT
                 !.CreateDate = ExifDateTimeTag("2019-03-03T03:03:03.000Z"),
                 !.ImageHeight = Some(600), !.ExifImageWidth = Some(0),
                 !.ImageWidth = Some(800), !.ISO = Some(0),
                 !.GPSLatitude = Some(0), !.GPSLongitude = Some(94),
                 !.MediaGroupUUID = Some("X")],
     size |-> 512,
     raster |-> [height |-> Some(601), width |-> Some(801),
                 orientation |-> Some(1)]]

ImageBare ==
    [tags |-> EmptyTags,
     size |-> 0,
     raster |-> [height |-> Some(480), width |-> Some(0),
                 orientation |-> Null]]

ImageBadDate ==
    [tags |-> [EmptyTags EXCEPT
                 !.DateTimeOriginal = StringDateTag("0000:00:00 00:00:00"),
                 !.ExifImageHeight = Some(100), !.ExifImageWidth = Some(200),
                 !.Orientation = Some(0),
                 !.GPSLatitude = Some(488), !.GPSLongitude = Some(23),
                 !.MediaGroupUUID = Some("X")],
     size |-> 64,
     raster |-> NoRaster]


\* A stream of the probe data.  r_frame_rate is held as the parts
\* split('/') makes of it, each the integer parseInt reads.
Stream(codec, w, h, rot, rate) ==
    [codec_type |-> codec, width |-> w, height |-> h, rotation |-> rot,
     r_frame_rate |-> rate]

AudioStream == Stream("audio", Null, Null, Null, Some(<<0, 0>>))

NoVideoTags ==
    [creationdate |-> Null, creation_time |-> Null, location |-> Null,
     ISO6709 |-> Null]

\* Video files: what ffprobe reports (format and streams) and the tags
\* exiftool reads.  format.duration is in milliseconds.
VideoFull ==
    [format |->
        [duration |-> Some(3661500), size |-> Some(4096),
         tags |-> Some([NoVideoTags EXCEPT
            !.creationdate = Some("2021-06-01T08:30:00.000Z"),
            !.creation_time = Some("2019-03-03T03:03:03.000Z"),
            !.location = Some(<<Dec("+37.3", 373), Dec("-122.0", -1220), Slash>>),
            !.ISO6709 = Some(<<Dec("+48.8", 488), Dec("+2.3", 23),
                               Dec("+35.0", 350), Slash>>)])],
     streams |-> <<AudioStream,
                   Stream("video", Some(1920), Some(1080),
                          Some([type |-> "number", v |-> 90]),
                          Some(<<30000, 1001>>))>>,
     tags |-> [EmptyTags EXCEPT !.ContentIdentifier = Some("X")]]

VideoMulti ==
    [format |->
        [duration |-> Some(59900), size |-> Some(0),
         tags |-> Some([NoVideoTags EXCEPT
            !.creation_time = Some("2020-01-01T12:00:00+02:00"),
            !.ISO6709 = Some(<<Dec("+0.0", 0), Dec("+9.4", 94),
                               Dec("+12.0", 120), Slash>>)])],
     streams |-> <<Stream("video", Some(1280), Some(720),
                          Some([type |-> "string", v |-> <<"9", "0">>]),
                          Some(<<25, 1>>)),
                   AudioStream,
                   Stream("video", Some(640), Some(0), Null, Some(<<30>>))>>,
     tags |-> [EmptyTags EXCEPT !.ContentIdentifier = Some("X")]]

VideoMalformed ==
    [format |->
        [duration |-> Some(0), size |-> Some(77),
         tags |-> Some([NoVideoTags EXCEPT
            !.location = Some(<<Dec("+37.3", 373), Slash>>),
            !.ISO6709 = Some(<<Dec("+48.8", 488), Dec("+2.3", 23),
                               Dec("+35.0", 350), Slash>>)])],
     streams |-> <<Stream("video", Some(320), Some(240),
                          Some([type |-> "number", v |-> 0]), Null)>>,
     tags |-> [EmptyTags EXCEPT !.ContentIdentifier = Some("Y")]]

\* A container whose generic location tag carries an altitude as well.
VideoAltitude ==
    [format |->
        [duration |-> Some(12000), size |-> Some(900),
         tags |-> Some([NoVideoTags EXCEPT
            !.location = Some(<<Dec("+48.8", 488), Dec("+2.3", 23),
                                Dec("+35.0", 350), Slash>>)])],
     streams |-> <<Stream("video", Some(1920), Some(1080), Null,
                          Some(<<25, 1>>))>>,
     tags |-> EmptyTags]

VideoBare ==
    [format |-> [duration |-> Null, size |-> Null, tags |-> Null],
     streams |-> <<AudioStream>>,
     tags |-> EmptyTags]

\* The libraries of the model: the image file and the video file.
Libraries ==
    { [image |-> ImageFull, video |-> VideoFull],
      [image |-> ImageSparse, video |-> VideoMulti],
      [image |-> ImageBadDate, video |-> VideoMalformed],
      [image |-> ImageBare, video |-> VideoBare],
      [image |-> ImageBare, video |-> VideoAltitude] }

(***************************************************************************)
(* The two repositories.                                                   *)
(***************************************************************************)
\* The columns of ExifEntity the handlers assign.
ExifColumns ==
    {"assetId", "imageName", "fileSizeInByte", "make", "model",
     "exifImageHeight", "exifImageWidth", "exposureTime", "orientation",
     "dateTimeOriginal", "modifyDate", "lensModel", "fNumber", "focalLength",
     "iso", "latitude", "longitude", "livePhotoCID", "country", "state",
     "city", "description", "fps"}

\* entity.column = value
Assign(entity, column, value) ==
    [c \in DOMAIN entity \cup {column} |->
        IF c = column THEN value ELSE entity[c]]

\* An insert in place of the upsert: a row is added whatever the table holds.
Insert(table, entity) ==
    Append(table, [c \in ExifColumns |->
                     IF c \in DOMAIN entity THEN entity[c] ELSE Null])

\* exifRepository.upsert(newExif, { conflictPaths: ['assetId'] }) (lines 228,
\* 357): the row of that assetId takes every column the entity defines and
\* keeps the others; without such a row one is inserted, the columns the
\* entity leaves undefined being NULL.
Upsert(table, entity) ==
    IF \E i \in 1..Len(table) : table[i].assetId = entity.assetId
    THEN [i \in 1..Len(table) |->
            IF table[i].assetId = entity.assetId
            THEN [c \in ExifColumns |->
                    IF c \in DOMAIN entity THEN entity[c] ELSE table[i][c]]
            ELSE table[i]]
    ELSE Append(table, [c \in ExifColumns |->
                          IF c \in DOMAIN entity THEN entity[c] ELSE Null])

\* exifRepository.update({ assetId }, { city, state, country }) (line 239).
Update(table, assetId, place) ==
    [i \in 1..Len(table) |->
        IF table[i].assetId = assetId
        THEN [table[i] EXCEPT !.city = place.city, !.state = place.state,
                              !.country = place.country]
        ELSE table[i]]

\* assetRepository.save(partial): the asset partial.id takes the fields the
\* partial entity carries.
Save(table, partial) ==
    [table EXCEPT ![partial.id] =
        [f \in DOMAIN @ |-> IF f \in DOMAIN partial THEN partial[f] ELSE @[f]]]

\* assetRepository.findLivePhotoMatch(livePhotoCID, otherAssetId, type): the
\* assets of that type, other than otherAssetId, whose exif row carries the
\* content identifier; the call answers one of them, or null when there is
\* none.
findLivePhotoMatch(assetTable, exifTable, livePhotoCID, otherAssetId, type) ==
    {b \in DOMAIN assetTable :
        /\ b # otherAssetId
        /\ assetTable[b].type = type
        /\ \E i \in 1..Len(exifTable) :
              /\ exifTable[i].assetId = b
              /\ exifTable[i].livePhotoCID = livePhotoCID}

(***************************************************************************)
(* State.                                                                  *)
(***************************************************************************)
VARIABLES
    assets,                \* the asset table: id -> AssetEntity
    exif,                  \* the exif table: the rows, in insertion order
    file,                  \* the file at each asset's originalPath
    config,                \* what configService answers
    geocoder,              \* the promise of geocoderInit
    isGeocodeInitialized,  \* line 73
    jobs,                  \* the extraction job of each asset
    geoJob,                \* the reverse-geocoding job
    runs,                  \* jobs handed over so far
    geoUpdates,            \* updates reverseGeocoding has made so far
    failures,              \* failed steps so far
    persisted              \* per asset: what each completed upsert left

vars ==
    <<assets, exif, file, config, geocoder, isGeocodeInitialized, jobs,
      geoJob, runs, geoUpdates, failures, persisted>>

\* A job slot.  asset is the snapshot job.data.asset; newExif the entity
\* under construction; match the asset findLivePhotoMatch answered.  The
\* remaining fields record what the run has done: peers is what the exif
\* table held of the other type's assets when the run reached line 183 (294)
\* or made its search.
NoJob ==
    [kind |-> "none", pc |-> "idle", asset |-> Null, newExif |-> <<>>, match |-> Null,
     tagsFailed |-> FALSE, err |-> "", searched |-> FALSE, writes |-> {},
     lookedUp |-> FALSE, enrich |-> Null, decoded |-> FALSE,
     result |-> "none", pairedAtStart |-> FALSE, peers |-> {}]

NoGeoJob ==
    [pc |-> "idle", data |-> Null, place |-> Null, enrich |-> Null,
     lookedUp |-> FALSE, result |-> "none"]

\* The catch blocks of extractExifInfo (lines 229-231) and
\* extractVideoMetadata (lines 359-363): log, and return normally.
Caught(job, step) ==
    [job EXCEPT !.pc = "done", !.err = step, !.result = "completed"]

\* A handler that returns.
Returned(job) == [job EXCEPT !.pc = "done", !.result = "completed"]

\* What a run sees of the geocoder when it reaches its enrichment step.
EnrichState ==
    [initialized |-> isGeocodeInitialized, loaded |-> geocoder = "loaded"]

\* A constructor that does not consult DISABLE_REVERSE_GEOCODING.
ConstructorGeocoderAlways(cfg) == "loading"

\* The constructor (lines 81-100): geocoderInit is started unless reverse
\* geocoding is disabled.
ConstructorGeocoder(cfg) ==
    IF ~cfg.DISABLE_REVERSE_GEOCODING THEN "loading" ELSE "off"

\* Line 73: the field initialiser.
ConstructorInitialized(cfg) == FALSE

NewAsset(id) ==
    [id |-> id, type |-> AssetType(id), isVisible |-> TRUE,
     livePhotoVideoId |-> Null,
     fileCreatedAt |-> "2020-01-01T12:00:00+02:00",
     fileModifiedAt |-> "2020-01-01T10:00:00.000Z",
     duration |-> IF AssetType(id) = "VIDEO"
                  THEN Some(<<"0", ":", "00", ":", "10", ".000000">>)
                  ELSE Null]

Init ==
    /\ assets = [id \in AssetIds |-> NewAsset(id)]
    /\ exif = <<>>
    /\ \E library \in Libraries :
          file = [id \in AssetIds |->
                    IF AssetType(id) = "IMAGE" THEN library.image
                    ELSE library.video]
    /\ config \in [DISABLE_REVERSE_GEOCODING : BOOLEAN]
    /\ geocoder = ConstructorGeocoder(config)
    /\ isGeocodeInitialized = ConstructorInitialized(config)
    /\ jobs = [id \in AssetIds |-> NoJob]
    /\ geoJob = NoGeoJob
    /\ runs = 0
    /\ geoUpdates = 0
    /\ failures = 0
    /\ persisted = [id \in AssetIds |-> <<>>]

(***************************************************************************)
(* The geocoder initialisation (constructor, lines 81-100).                *)
(***************************************************************************)
\* geocoder.init calls back, the promise of geocoderInit resolves and its
\* .then callback (lines 96-99) runs in the same turn of the event loop, before
\* any handler can continue.
GeocoderInitThen ==
    /\ geocoder = "loading"
    /\ geocoder' = "loaded"
    /\ isGeocodeInitialized' = TRUE
    /\ UNCHANGED <<assets, exif, file, config, jobs, geoJob, runs, geoUpdates,
                   failures, persisted>>

(***************************************************************************)
(* extractExifInfo (lines 134-232).                                        *)
(***************************************************************************)
\* Lines 153-176: the dates and the entity built from the tags.
ExifNewExif(asset, fileName, exifData, fileSizeInBytes) ==
    LET fileCreatedAt ==
            exifToDate(Coalesce(Coalesce(exifData.DateTimeOriginal,
                                         exifData.CreateDate),
                                StringDateTag(asset.fileCreatedAt)))
        fileModifiedAt ==
            exifToDate(Coalesce(exifData.ModifyDate,
                                StringDateTag(asset.fileModifiedAt)))
    IN  [assetId |-> asset.id,
         imageName |-> Some(fileName.name),
         fileSizeInByte |-> Some(fileSizeInBytes),
         make |-> StrOrNull(exifData.Make),
         model |-> StrOrNull(exifData.Model),
         exifImageHeight |->
             IF TruthyNum(exifData.ExifImageHeight)
             THEN exifData.ExifImageHeight ELSE NumOrNull(exifData.ImageHeight),
         exifImageWidth |->
             IF TruthyNum(exifData.ExifImageWidth)
             THEN exifData.ExifImageWidth ELSE NumOrNull(exifData.ImageWidth),
         exposureTime |-> StrOrNull(exifData.ExposureTime),
         orientation |->
             IF exifData.Orientation # Null
             THEN Some(IntToString(exifData.Orientation[1])) ELSE Null,
         dateTimeOriginal |-> fileCreatedAt,
         modifyDate |-> fileModifiedAt,
         lensModel |-> StrOrNull(exifData.LensModel),
         fNumber |-> NumOrNull(exifData.FNumber),
         focalLength |->
             IF exifData.FocalLength # Null /\ exifData.FocalLength[1].txt # ""
             THEN Some(parseFloat(exifData.FocalLength[1])) ELSE Null,
         iso |-> NumOrNull(exifData.ISO),
         latitude |-> NumOrNull(exifData.GPSLatitude),
         longitude |-> NumOrNull(exifData.GPSLongitude),
         livePhotoCID |-> StrOrNull(exifData.MediaGroupUUID)]

\* A first save that carries no creation time.
ExifCreatedAtSaveNothing(asset, newExif) == [id |-> asset.id]

\* Lines 178-181: the partial entity of the first save; fileCreatedAt is
\* undefined, and so not saved, when no date was resolved.
ExifCreatedAtSave(asset, newExif) ==
    IF newExif.dateTimeOriginal = Null THEN [id |-> asset.id]
    ELSE [id |-> asset.id, fileCreatedAt |-> newExif.dateTimeOriginal[1]]

\* Line 183.
ExifPairingGuard(newExif, asset) ==
    TruthyStr(newExif.livePhotoCID) /\ asset.livePhotoVideoId = Null

\* A slip in line 191: the visibility is saved on the asset being processed.
ExifVisibilitySaveOnSelf(asset, motionAssetId) ==
    [id |-> asset.id, isVisible |-> FALSE]

\* Lines 190 and 191.
ExifPointerSave(asset, motionAssetId) ==
    [id |-> asset.id, livePhotoVideoId |-> Some(motionAssetId)]
ExifVisibilitySave(asset, motionAssetId) ==
    [id |-> motionAssetId, isVisible |-> FALSE]

\* An enrichment guard that does not consult the readiness flag.
GeocodeGuardNoFlag(initialized, newExif) ==
    TruthyNum(newExif.latitude) /\ TruthyNum(newExif.longitude)

\* Lines 201 and 327.
GeocodeGuard(initialized, newExif) ==
    initialized /\ TruthyNum(newExif.latitude) /\ TruthyNum(newExif.longitude)

\* Lines 202-205 and 328-331.
WithPlace(newExif) ==
    LET place == reverseGeocodeExif(newExif.latitude[1], newExif.longitude[1])
    IN  Assign(Assign(Assign(newExif, "country", place.country),
                      "state", place.state), "city", place.city)

\* Line 212.
SharpGuard(newExif) ==
    \/ ~TruthyNum(newExif.exifImageHeight)
    \/ ~TruthyNum(newExif.exifImageWidth)
    \/ ~TruthySeq(newExif.orientation)

\* A fill that takes every value the decoder gives.
SharpFillOverwrites(newExif, metadata) ==
    [newExif EXCEPT
       !.exifImageHeight = NumOrNull(metadata.height),
       !.exifImageWidth = NumOrNull(metadata.width),
       !.orientation =
           IF metadata.orientation # Null
           THEN Some(IntToString(metadata.orientation[1])) ELSE Null]

\* Lines 215-225.
SharpFill(newExif, metadata) ==
    [newExif EXCEPT
       !.exifImageHeight =
           IF @ = Null THEN NumOrNull(metadata.height) ELSE @,
       !.exifImageWidth =
           IF @ = Null THEN NumOrNull(metadata.width) ELSE @,
       !.orientation =
           IF @ = Null
           THEN (IF metadata.orientation # Null
                 THEN Some(IntToString(metadata.orientation[1])) ELSE Null)
           ELSE @]

\* The entry a completed upsert leaves in `persisted`.
Persist(job, table) ==
    LET row == CHOOSE r \in {table[i] : i \in 1..Len(table)} :
                   r.assetId = job.asset.id
    IN  [row |-> row, enrich |-> job.enrich, tagsFailed |-> job.tagsFailed,
         geoUpdates |-> geoUpdates,
         fileCreatedAt |-> NewDate(job.asset.fileCreatedAt),
         fileModifiedAt |-> NewDate(job.asset.fileModifiedAt)]

\* The asset is paired in the asset table: an image with a pointer, a video
\* some image points to.
IsPaired(id) ==
    \/ assets[id].livePhotoVideoId # Null
    \/ \E i \in AssetIds : assets[i].livePhotoVideoId = Some(id)

\* The assets of the given type, other than id, that have an exif row, each
\* with the content identifier its row carries.
Peers(id, type) ==
    {[id |-> exif[i].assetId, livePhotoCID |-> exif[i].livePhotoCID] :
        i \in {k \in 1..Len(exif) :
                 exif[k].assetId # id /\ AssetType(exif[k].assetId) = type}}

\* The dispatcher hands an EXIF_EXTRACTION job for a still image to the
\* handler; job.data.asset is the asset as the table holds it then.
ExifDispatch(a) ==
    /\ AssetType(a) = "IMAGE"
    /\ jobs[a].pc \in {"idle", "done"}
    /\ runs < MaxJobs
    /\ runs' = runs + 1
    /\ jobs' = [jobs EXCEPT ![a] =
                  [NoJob EXCEPT !.kind = "exif", !.pc = "read", !.asset = assets[a],
                                !.result = "running",
                                !.pairedAtStart = IsPaired(a)]]
    /\ UNCHANGED <<assets, exif, file, config, geocoder,
                   isGeocodeInitialized, geoJob, geoUpdates, failures, persisted>>

\* A tag read whose failure reaches the catch block of the handler.
ExifTagsFailedAborts(job, fileName, fileSizeInBytes) ==
    [job EXCEPT !.pc = "done", !.tagsFailed = TRUE, !.err = "tags",
                !.result = "completed"]

\* Lines 138-141: the job after a failed tag read; exifData is null and the
\* run goes on.
ExifTagsFailed(job, fileName, fileSizeInBytes) ==
    [job EXCEPT !.pc = "saveCreated", !.tagsFailed = TRUE,
                !.newExif = ExifNewExif(job.asset, fileName, EmptyTags,
                                        fileSizeInBytes)]

\* Lines 137-176: the tag read, whose failure leaves exifData null, then
\* fs.statSync, which throws when the file cannot be read.
ExifRead(a) ==
    /\ jobs[a].kind = "exif"
    /\ jobs[a].pc = "read"
    /\ \/ /\ jobs' = [jobs EXCEPT ![a] =
                  [@ EXCEPT !.pc = "saveCreated",
                            !.newExif = ExifNewExif(jobs[a].asset, FileNameOf(a),
                                                    file[a].tags, file[a].size)]]
          /\ UNCHANGED failures
       \/ /\ failures < MaxFailures
          /\ failures' = failures + 1
          /\ jobs' = [jobs EXCEPT ![a] =
                  ExifTagsFailed(@, FileNameOf(a), file[a].size)]
       \/ /\ failures < MaxFailures
          /\ failures' = failures + 1
          /\ jobs' = [jobs EXCEPT ![a] = Caught(@, "stat")]
    /\ UNCHANGED <<assets, exif, file, config, geocoder,
                   isGeocodeInitialized, geoJob, runs, geoUpdates, persisted>>

\* Where the run goes after the first save (line 183).
ExifAfterCreated(job) ==
    IF ExifPairingGuard(job.newExif, job.asset) THEN "find" ELSE "geocode"

\* Lines 178-181.  toISOString throws on an Invalid Date, before save is
\* called.
ExifSaveCreated(a) ==
    /\ jobs[a].kind = "exif"
    /\ jobs[a].pc = "saveCreated"
    /\ \/ /\ jobs[a].newExif.dateTimeOriginal = Some(InvalidDate)
          /\ jobs' = [jobs EXCEPT ![a] = Caught(@, "date")]
          /\ UNCHANGED <<assets, failures>>
       \/ /\ jobs[a].newExif.dateTimeOriginal # Some(InvalidDate)
          /\ assets' = Save(assets, ExifCreatedAtSave(jobs[a].asset, jobs[a].newExif))
          /\ jobs' = [jobs EXCEPT ![a] =
                  [@ EXCEPT !.pc = ExifAfterCreated(jobs[a]),
                            !.writes = @ \cup {"fileCreatedAt"},
                            !.peers = Peers(a, "VIDEO")]]
          /\ UNCHANGED failures
       \/ /\ jobs[a].newExif.dateTimeOriginal # Some(InvalidDate)
          /\ failures < MaxFailures
          /\ failures' = failures + 1
          /\ jobs' = [jobs EXCEPT ![a] = Caught(@, "save")]
          /\ UNCHANGED assets
    /\ UNCHANGED <<exif, file, config, geocoder, isGeocodeInitialized,
                   geoJob, runs, geoUpdates, persisted>>

\* Lines 184-189.
ExifFind(a) ==
    /\ jobs[a].kind = "exif"
    /\ jobs[a].pc = "find"
    /\ LET found == findLivePhotoMatch(assets, exif, jobs[a].newExif.livePhotoCID,
                                       a, "VIDEO")
       IN  \/ /\ \E motionAsset \in found :
                    jobs' = [jobs EXCEPT ![a] =
                        [@ EXCEPT !.pc = "savePointer", !.searched = TRUE,
                                  !.match = Some(motionAsset),
                                  !.peers = Peers(a, "VIDEO")]]
              /\ UNCHANGED failures
           \/ /\ found = {}
              /\ jobs' = [jobs EXCEPT ![a] =
                        [@ EXCEPT !.pc = "geocode", !.searched = TRUE,
                                  !.peers = Peers(a, "VIDEO")]]
              /\ UNCHANGED failures
           \/ /\ failures < MaxFailures
              /\ failures' = failures + 1
              /\ jobs' = [jobs EXCEPT ![a] =
                        Caught([@ EXCEPT !.searched = TRUE,
                                         !.peers = Peers(a, "VIDEO")], "find")]
    /\ UNCHANGED <<assets, exif, file, config, geocoder,
                   isGeocodeInitialized, geoJob, runs, geoUpdates, persisted>>

\* Line 190.
ExifSavePointer(a) ==
    /\ jobs[a].kind = "exif"
    /\ jobs[a].pc = "savePointer"
    /\ \/ /\ assets' = Save(assets, ExifPointerSave(jobs[a].asset, jobs[a].match[1]))
          /\ jobs' = [jobs EXCEPT ![a] =
                  [@ EXCEPT !.pc = "saveVisible",
                            !.writes = @ \cup {"livePhotoVideoId"}]]
          /\ UNCHANGED failures
       \/ /\ failures < MaxFailures
          /\ failures' = failures + 1
          /\ jobs' = [jobs EXCEPT ![a] = Caught(@, "save")]
          /\ UNCHANGED assets
    /\ UNCHANGED <<exif, file, config, geocoder, isGeocodeInitialized,
                   geoJob, runs, geoUpdates, persisted>>

\* Line 191.
ExifSaveVisible(a) ==
    /\ jobs[a].kind = "exif"
    /\ jobs[a].pc = "saveVisible"
    /\ \/ /\ assets' = Save(assets, ExifVisibilitySave(jobs[a].asset, jobs[a].match[1]))
          /\ jobs' = [jobs EXCEPT ![a] =
                  [@ EXCEPT !.pc = "geocode",
                            !.writes = @ \cup {"isVisible"}]]
          /\ UNCHANGED failures
       \/ /\ failures < MaxFailures
          /\ failures' = failures + 1
          /\ jobs' = [jobs EXCEPT ![a] = Caught(@, "save")]
          /\ UNCHANGED assets
    /\ UNCHANGED <<exif, file, config, geocoder, isGeocodeInitialized,
                   geoJob, runs, geoUpdates, persisted>>

\* Where the run goes after the enrichment step (line 212).
ExifAfterGeocode(newExif) == IF SharpGuard(newExif) THEN "sharp" ELSE "upsert"

\* Lines 201-206.  A lookup that finds no address resolves undefined, and
\* reverseGeocodeExif throws on geoCodeInfo.countryCode (line 109).
ExifGeocode(a) ==
    /\ jobs[a].kind = "exif"
    /\ jobs[a].pc = "geocode"
    /\ \/ /\ GeocodeGuard(isGeocodeInitialized, jobs[a].newExif)
          /\ jobs' = [jobs EXCEPT ![a] =
                  [@ EXCEPT !.pc = ExifAfterGeocode(jobs[a].newExif),
                            !.newExif = WithPlace(@), !.lookedUp = TRUE,
                            !.enrich = Some(EnrichState)]]
          /\ UNCHANGED failures
       \/ /\ GeocodeGuard(isGeocodeInitialized, jobs[a].newExif)
          /\ failures < MaxFailures
          /\ failures' = failures + 1
          /\ jobs' = [jobs EXCEPT ![a] =
                  Caught([@ EXCEPT !.lookedUp = TRUE, !.enrich = Some(EnrichState)],
                         "lookup")]
       \/ /\ ~GeocodeGuard(isGeocodeInitialized, jobs[a].newExif)
          /\ jobs' = [jobs EXCEPT ![a] =
                  [@ EXCEPT !.pc = ExifAfterGeocode(jobs[a].newExif),
                            !.enrich = Some(EnrichState)]]
          /\ UNCHANGED failures
    /\ UNCHANGED <<assets, exif, file, config, geocoder,
                   isGeocodeInitialized, geoJob, runs, geoUpdates, persisted>>

\* Lines 213-225.  sharp(...).metadata() rejects on a header it cannot
\* decode.
ExifSharp(a) ==
    /\ jobs[a].kind = "exif"
    /\ jobs[a].pc = "sharp"
    /\ \/ /\ jobs' = [jobs EXCEPT ![a] =
                  [@ EXCEPT !.pc = "upsert", !.decoded = TRUE,
                            !.newExif = SharpFill(@, file[a].raster)]]
          /\ UNCHANGED failures
       \/ /\ failures < MaxFailures
          /\ failures' = failures + 1
          /\ jobs' = [jobs EXCEPT ![a] = Caught(@, "sharp")]
    /\ UNCHANGED <<assets, exif, file, config, geocoder,
                   isGeocodeInitialized, geoJob, runs, geoUpdates, persisted>>

\* Line 228.
ExifUpsert(a) ==
    /\ jobs[a].kind = "exif"
    /\ jobs[a].pc = "upsert"
    /\ \/ /\ exif' = Upsert(exif, jobs[a].newExif)
          /\ jobs' = [jobs EXCEPT ![a] =
                  Returned([@ EXCEPT !.writes = @ \cup {"exif"}])]
          /\ persisted' = [persisted EXCEPT ![a] =
                  Append(@, Persist(jobs[a], exif'))]
          /\ UNCHANGED failures
       \/ /\ failures < MaxFailures
          /\ failures' = failures + 1
          /\ jobs' = [jobs EXCEPT ![a] = Caught(@, "upsert")]
          /\ UNCHANGED <<exif, persisted>>
    /\ UNCHANGED <<assets, file, config, geocoder, isGeocodeInitialized,
                   geoJob, runs, geoUpdates>>

(***************************************************************************)
(* extractVideoMetadata (lines 243-364).                                   *)
(***************************************************************************)
\* Lines 258-263.
VideoDurationString(asset, data) ==
    IF TruthyNum(data.format.duration)
    THEN Some(extractDuration(data.format.duration[1]))
    ELSE asset.duration

\* Lines 259-272.
VideoFileCreatedAt(asset, data) ==
    LET videoTags == data.format.tags
    IN  IF videoTags # Null /\ TruthyStr(videoTags[1].creationdate)
        THEN videoTags[1].creationdate[1]
        ELSE IF videoTags # Null /\ TruthyStr(videoTags[1].creation_time)
        THEN videoTags[1].creation_time[1]
        ELSE asset.fileCreatedAt

\* Lines 279-292.
VideoNewExif(asset, fileName, data, exifData) ==
    LET fileCreatedAt == VideoFileCreatedAt(asset, data)
    IN  [assetId |-> asset.id,
         description |-> Some(""),
         imageName |-> StrOrNull(Some(fileName.name)),
         fileSizeInByte |-> NumOrNull(data.format.size),
         dateTimeOriginal |->
             IF fileCreatedAt # "" THEN Some(NewDate(fileCreatedAt)) ELSE Null,
         modifyDate |-> Null,
         latitude |-> Null,
         longitude |-> Null,
         city |-> Null,
         state |-> Null,
         country |-> Null,
         fps |-> Null,
         livePhotoCID |-> StrOrNull(exifData.ContentIdentifier)]

\* Line 294.
VideoPairingGuard(newExif, asset) == TruthyStr(newExif.livePhotoCID)

\* The pointer written the way the image extractor writes it: on the asset
\* being processed, referring to the match.
VideoPointerSaveOnSelf(asset, photoAssetId) ==
    [id |-> asset.id, livePhotoVideoId |-> Some(photoAssetId)]

\* Lines 301 and 302.
VideoPointerSave(asset, photoAssetId) ==
    [id |-> photoAssetId, livePhotoVideoId |-> Some(asset.id)]
VideoVisibilitySave(asset, photoAssetId) ==
    [id |-> asset.id, isVisible |-> FALSE]

\* Lines 306-324: the generic location tag when present, else the ISO6709
\* tag.
VideoLocation(newExif, data) ==
    LET videoTags == data.format.tags
    IN  IF videoTags # Null /\ videoTags[1].location # Null
           /\ videoTags[1].location[1] # <<>>
        THEN LET match == MatchLocation(videoTags[1].location[1])
             IN  IF match # Null /\ Len(match[1]) = 3
                 THEN [newExif EXCEPT
                         !.latitude = Some(parseFloat(match[1][2])),
                         !.longitude = Some(parseFloat(match[1][3]))]
                 ELSE newExif
        ELSE IF videoTags # Null /\ videoTags[1].ISO6709 # Null
                /\ videoTags[1].ISO6709[1] # <<>>
        THEN LET match == MatchLocationISO6709(videoTags[1].ISO6709[1])
             IN  IF match # Null /\ Len(match[1]) = 4
                 THEN [newExif EXCEPT
                         !.latitude = Some(parseFloat(match[1][2])),
                         !.longitude = Some(parseFloat(match[1][3]))]
                 ELSE newExif
        ELSE newExif

\* Math.round(a / b) for a >= 0, b > 0.
RoundDiv(a, b) == (2 * a + b) \div (2 * b)

\* Lines 335-354: what one stream does to the entity.
ScanStream(newExif, stream) ==
    IF stream.codec_type = "video"
    THEN LET e1 == Assign(newExif, "exifImageWidth", NumOrNull(stream.width))
             e2 == Assign(e1, "exifImageHeight", NumOrNull(stream.height))
             e3 == Assign(e2, "orientation",
                      IF stream.rotation # Null /\ stream.rotation[1].type = "string"
                      THEN Some(stream.rotation[1].v)
                      ELSE IF stream.rotation # Null
                              /\ stream.rotation[1].type = "number"
                      THEN Some(IntToString(stream.rotation[1].v))
                      ELSE Null)
         IN  IF stream.r_frame_rate # Null /\ stream.r_frame_rate[1] # <<>>
                /\ Len(stream.r_frame_rate[1]) = 2
             THEN Assign(e3, "fps",
                         Some(RoundDiv(stream.r_frame_rate[1][1],
                                       stream.r_frame_rate[1][2])))
             ELSE e3
    ELSE newExif

\* Lines 334-355: the loop over data.streams.
RECURSIVE StreamScan(_, _)
StreamScan(newExif, streams) ==
    IF streams = <<>> THEN newExif
    ELSE StreamScan(ScanStream(newExif, Head(streams)), Tail(streams))

\* A last save of the whole entity the job was handed, with the two fields
\* set.
VideoAssetSaveWholeEntity(asset, data) ==
    [asset EXCEPT !.duration = VideoDurationString(asset, data),
                  !.fileCreatedAt = VideoFileCreatedAt(asset, data)]

\* Line 358: the partial entity of the last save.
VideoAssetSave(asset, data) ==
    [id |-> asset.id, duration |-> VideoDurationString(asset, data),
     fileCreatedAt |-> VideoFileCreatedAt(asset, data)]

\* The dispatcher hands an EXTRACT_VIDEO_METADATA job for a video to the
\* handler.
VideoDispatch(a) ==
    /\ AssetType(a) = "VIDEO"
    /\ jobs[a].pc \in {"idle", "done"}
    /\ runs < MaxJobs
    /\ runs' = runs + 1
    /\ jobs' = [jobs EXCEPT ![a] =
                  [NoJob EXCEPT !.kind = "video", !.pc = "probe", !.asset = assets[a],
                                !.result = "running",
                                !.pairedAtStart = IsPaired(a)]]
    /\ UNCHANGED <<assets, exif, file, config, geocoder,
                   isGeocodeInitialized, geoJob, geoUpdates, failures, persisted>>

\* A probe whose failure is passed over, as the failure of the tag read is.
ProbeFailedGoesOn(job) == [job EXCEPT !.pc = "read", !.err = "probe"]

\* The job after a failed probe (lines 254, 359-363).
ProbeFailed(job) == Caught(job, "probe")

\* A handler without the early return.
VideoSkipsNever(asset) == FALSE

\* Line 247: the handler returns at once for an asset that is not visible.
VideoSkips(asset) == ~asset.isVisible

\* Lines 247-257: the early return for an asset that is not visible, then
\* the probe.
VideoProbe(a) ==
    /\ jobs[a].kind = "video"
    /\ jobs[a].pc = "probe"
    /\ \/ /\ VideoSkips(jobs[a].asset)
          /\ jobs' = [jobs EXCEPT ![a] = Returned(@)]
          /\ UNCHANGED failures
       \/ /\ ~VideoSkips(jobs[a].asset)
          /\ jobs' = [jobs EXCEPT ![a] = [@ EXCEPT !.pc = "read"]]
          /\ UNCHANGED failures
       \/ /\ ~VideoSkips(jobs[a].asset)
          /\ failures < MaxFailures
          /\ failures' = failures + 1
          /\ jobs' = [jobs EXCEPT ![a] = ProbeFailed(@)]
    /\ UNCHANGED <<assets, exif, file, config, geocoder,
                   isGeocodeInitialized, geoJob, runs, geoUpdates, persisted>>

\* Where the run goes after the entity is built (line 294).
VideoAfterRead(newExif, asset) ==
    IF VideoPairingGuard(newExif, asset) THEN "find" ELSE "geocode"

\* Lines 274-292.
VideoRead(a) ==
    /\ jobs[a].kind = "video"
    /\ jobs[a].pc = "read"
    /\ \/ /\ LET newExif == VideoNewExif(jobs[a].asset, FileNameOf(a), file[a],
                                         file[a].tags)
             IN  jobs' = [jobs EXCEPT ![a] =
                    [@ EXCEPT !.pc = VideoAfterRead(newExif, jobs[a].asset),
                              !.newExif = newExif,
                              !.peers = Peers(a, "IMAGE")]]
          /\ UNCHANGED failures
       \/ /\ failures < MaxFailures
          /\ failures' = failures + 1
          /\ LET newExif == VideoNewExif(jobs[a].asset, FileNameOf(a), file[a],
                                         EmptyTags)
             IN  jobs' = [jobs EXCEPT ![a] =
                    [@ EXCEPT !.pc = VideoAfterRead(newExif, jobs[a].asset),
                              !.newExif = newExif, !.tagsFailed = TRUE,
                              !.peers = Peers(a, "IMAGE")]]
    /\ UNCHANGED <<assets, exif, file, config, geocoder,
                   isGeocodeInitialized, geoJob, runs, geoUpdates, persisted>>

\* Lines 295-300.
VideoFind(a) ==
    /\ jobs[a].kind = "video"
    /\ jobs[a].pc = "find"
    /\ LET found == findLivePhotoMatch(assets, exif, jobs[a].newExif.livePhotoCID,
                                       a, "IMAGE")
       IN  \/ /\ \E photoAsset \in found :
                    jobs' = [jobs EXCEPT ![a] =
                        [@ EXCEPT !.pc = "savePointer", !.searched = TRUE,
                                  !.match = Some(photoAsset),
                                  !.peers = Peers(a, "IMAGE")]]
              /\ UNCHANGED failures
           \/ /\ found = {}
              /\ jobs' = [jobs EXCEPT ![a] =
                        [@ EXCEPT !.pc = "geocode", !.searched = TRUE,
                                  !.peers = Peers(a, "IMAGE")]]
              /\ UNCHANGED failures
           \/ /\ failures < MaxFailures
              /\ failures' = failures + 1
              /\ jobs' = [jobs EXCEPT ![a] =
                        Caught([@ EXCEPT !.searched = TRUE,
                                         !.peers = Peers(a, "IMAGE")], "find")]
    /\ UNCHANGED <<assets, exif, file, config, geocoder,
                   isGeocodeInitialized, geoJob, runs, geoUpdates, persisted>>

\* Line 301.
VideoSavePointer(a) ==
    /\ jobs[a].kind = "video"
    /\ jobs[a].pc = "savePointer"
    /\ \/ /\ assets' = Save(assets, VideoPointerSave(jobs[a].asset, jobs[a].match[1]))
          /\ jobs' = [jobs EXCEPT ![a] =
                  [@ EXCEPT !.pc = "saveVisible",
                            !.writes = @ \cup {"livePhotoVideoId"}]]
          /\ UNCHANGED failures
       \/ /\ failures < MaxFailures
          /\ failures' = failures + 1
          /\ jobs' = [jobs EXCEPT ![a] = Caught(@, "save")]
          /\ UNCHANGED assets
    /\ UNCHANGED <<exif, file, config, geocoder, isGeocodeInitialized,
                   geoJob, runs, geoUpdates, persisted>>

\* Line 302.
VideoSaveVisible(a) ==
    /\ jobs[a].kind = "video"
    /\ jobs[a].pc = "saveVisible"
    /\ \/ /\ assets' = Save(assets, VideoVisibilitySave(jobs[a].asset, jobs[a].match[1]))
          /\ jobs' = [jobs EXCEPT ![a] =
                  [@ EXCEPT !.pc = "geocode",
                            !.writes = @ \cup {"isVisible"}]]
          /\ UNCHANGED failures
       \/ /\ failures < MaxFailures
          /\ failures' = failures + 1
          /\ jobs' = [jobs EXCEPT ![a] = Caught(@, "save")]
          /\ UNCHANGED assets
    /\ UNCHANGED <<exif, file, config, geocoder, isGeocodeInitialized,
                   geoJob, runs, geoUpdates, persisted>>

\* Lines 306-332: the location tags, then the enrichment.
VideoGeocode(a) ==
    /\ jobs[a].kind = "video"
    /\ jobs[a].pc = "geocode"
    /\ LET located == VideoLocation(jobs[a].newExif, file[a])
       IN  \/ /\ GeocodeGuard(isGeocodeInitialized, located)
              /\ jobs' = [jobs EXCEPT ![a] =
                      [@ EXCEPT !.pc = "upsert", !.newExif = WithPlace(located),
                                !.lookedUp = TRUE, !.enrich = Some(EnrichState)]]
              /\ UNCHANGED failures
           \/ /\ GeocodeGuard(isGeocodeInitialized, located)
              /\ failures < MaxFailures
              /\ failures' = failures + 1
              /\ jobs' = [jobs EXCEPT ![a] =
                      Caught([@ EXCEPT !.lookedUp = TRUE, !.enrich = Some(EnrichState)],
                             "lookup")]
           \/ /\ ~GeocodeGuard(isGeocodeInitialized, located)
              /\ jobs' = [jobs EXCEPT ![a] =
                      [@ EXCEPT !.pc = "upsert", !.newExif = located,
                                !.enrich = Some(EnrichState)]]
              /\ UNCHANGED failures
    /\ UNCHANGED <<assets, exif, file, config, geocoder,
                   isGeocodeInitialized, geoJob, runs, geoUpdates, persisted>>

\* Lines 334-357: the stream scan, then the upsert.
VideoUpsert(a) ==
    /\ jobs[a].kind = "video"
    /\ jobs[a].pc = "upsert"
    /\ \/ /\ LET newExif == StreamScan(jobs[a].newExif, file[a].streams)
             IN  /\ exif' = Upsert(exif, newExif)
                 /\ jobs' = [jobs EXCEPT ![a] =
                        [@ EXCEPT !.pc = "saveAsset", !.newExif = newExif,
                                  !.writes = @ \cup {"exif"}]]
          /\ persisted' = [persisted EXCEPT ![a] =
                  Append(@, Persist(jobs[a], exif'))]
          /\ UNCHANGED failures
       \/ /\ failures < MaxFailures
          /\ failures' = failures + 1
          /\ jobs' = [jobs EXCEPT ![a] = Caught(@, "upsert")]
          /\ UNCHANGED <<exif, persisted>>
    /\ UNCHANGED <<assets, file, config, geocoder, isGeocodeInitialized,
                   geoJob, runs, geoUpdates>>

\* Line 358.
VideoSaveAsset(a) ==
    /\ jobs[a].kind = "video"
    /\ jobs[a].pc = "saveAsset"
    /\ \/ /\ assets' = Save(assets, VideoAssetSave(jobs[a].asset, file[a]))
          /\ jobs' = [jobs EXCEPT ![a] =
                  Returned([@ EXCEPT !.writes = @ \cup {"duration", "fileCreatedAt"}])]
          /\ UNCHANGED failures
       \/ /\ failures < MaxFailures
          /\ failures' = failures + 1
          /\ jobs' = [jobs EXCEPT ![a] = Caught(@, "save")]
          /\ UNCHANGED assets
    /\ UNCHANGED <<exif, file, config, geocoder, isGeocodeInitialized,
                   geoJob, runs, geoUpdates, persisted>>

(***************************************************************************)
(* reverseGeocoding (lines 234-241).                                       *)
(***************************************************************************)
\* The handler has no try/catch: an error leaves it as a rejection, and
\* bull marks the job failed.
Raised(job) == [job EXCEPT !.pc = "done", !.result = "raised"]

\* The dispatcher hands a REVERSE_GEOCODING job to the handler, for an asset
\* whose exif row holds a coordinate pair.
GeoDispatch(i) ==
    /\ geoJob.pc \in {"idle", "done"}
    /\ runs < MaxJobs
    /\ runs' = runs + 1
    /\ i \in 1..Len(exif)
    /\ exif[i].latitude # Null
    /\ exif[i].longitude # Null
    /\ geoJob' = [NoGeoJob EXCEPT
                    !.pc = "lookup", !.result = "running",
                    !.data = [assetId |-> exif[i].assetId,
                              latitude |-> exif[i].latitude[1],
                              longitude |-> exif[i].longitude[1]]]
    /\ UNCHANGED <<assets, exif, file, config, geocoder,
                   isGeocodeInitialized, jobs, geoUpdates, failures, persisted>>

\* Lines 236-238.
GeoLookup ==
    /\ geoJob.pc = "lookup"
    /\ \/ /\ ~isGeocodeInitialized
          /\ geoJob' = [geoJob EXCEPT !.pc = "done", !.result = "completed",
                                      !.enrich = Some(EnrichState)]
          /\ UNCHANGED failures
       \/ /\ isGeocodeInitialized
          /\ geoJob' = [geoJob EXCEPT
                          !.pc = "update", !.lookedUp = TRUE,
                          !.enrich = Some(EnrichState),
                          !.place = Some(reverseGeocodeExif(geoJob.data.latitude,
                                                            geoJob.data.longitude))]
          /\ UNCHANGED failures
       \/ /\ isGeocodeInitialized
          /\ failures < MaxFailures
          /\ failures' = failures + 1
          /\ geoJob' = Raised([geoJob EXCEPT !.lookedUp = TRUE,
                                             !.enrich = Some(EnrichState)])
    /\ UNCHANGED <<assets, exif, file, config, geocoder,
                   isGeocodeInitialized, jobs, runs, geoUpdates, persisted>>

\* Line 239.
GeoUpdate ==
    /\ geoJob.pc = "update"
    /\ \/ /\ exif' = Update(exif, geoJob.data.assetId, geoJob.place[1])
          /\ geoJob' = [geoJob EXCEPT !.pc = "done", !.result = "completed"]
          /\ geoUpdates' = geoUpdates + 1
          /\ UNCHANGED failures
       \/ /\ failures < MaxFailures
          /\ failures' = failures + 1
          /\ geoJob' = Raised(geoJob)
          /\ UNCHANGED <<exif, geoUpdates>>
    /\ UNCHANGED <<assets, file, config, geocoder, isGeocodeInitialized,
                   jobs, runs, persisted>>

(***************************************************************************)
(* The processor.                                                          *)
(***************************************************************************)
Next ==
    \/ GeocoderInitThen
    \/ \E a \in AssetIds : ExifDispatch(a)
    \/ \E a \in AssetIds : ExifRead(a)
    \/ \E a \in AssetIds : ExifSaveCreated(a)
    \/ \E a \in AssetIds : ExifFind(a)
    \/ \E a \in AssetIds : ExifSavePointer(a)
    \/ \E a \in AssetIds : ExifSaveVisible(a)
    \/ \E a \in AssetIds : ExifGeocode(a)
    \/ \E a \in AssetIds : ExifSharp(a)
    \/ \E a \in AssetIds : ExifUpsert(a)
    \/ \E a \in AssetIds : VideoDispatch(a)
    \/ \E a \in AssetIds : VideoProbe(a)
    \/ \E a \in AssetIds : VideoRead(a)
    \/ \E a \in AssetIds : VideoFind(a)
    \/ \E a \in AssetIds : VideoSavePointer(a)
    \/ \E a \in AssetIds : VideoSaveVisible(a)
    \/ \E a \in AssetIds : VideoGeocode(a)
    \/ \E a \in AssetIds : VideoUpsert(a)
    \/ \E a \in AssetIds : VideoSaveAsset(a)
    \/ \E i \in 1..2 : GeoDispatch(i)
    \/ GeoLookup
    \/ GeoUpdate

Spec == Init /\ [][Next]_vars

(***************************************************************************)
(* The video handler on files of every duration.                           *)
(***************************************************************************)
\* Whole seconds around the carries into the hours and the days.
LongDurations ==
    {3599, 3600, 3601, 3661, 7199, 7200, 35999, 36000, 86399, 86400,
     359999, 360000}

\* format.duration of the probed files, in milliseconds.
DurationInputs == {d * 1000 : d \in (0..MaxSeconds) \cup LongDurations}

\* The processor with reverse geocoding disabled, and a video whose container
\* carries nothing but a duration.
InitDuration ==
    /\ assets = [id \in AssetIds |-> NewAsset(id)]
    /\ exif = <<>>
    /\ \E durationMs \in DurationInputs :
          file = [id \in AssetIds |->
                    IF AssetType(id) = "IMAGE" THEN ImageBare
                    ELSE [VideoBare EXCEPT !.format.duration = Some(durationMs)]]
    /\ config = [DISABLE_REVERSE_GEOCODING |-> TRUE]
    /\ geocoder = ConstructorGeocoder(config)
    /\ isGeocodeInitialized = ConstructorInitialized(config)
    /\ jobs = [id \in AssetIds |-> NoJob]
    /\ geoJob = NoGeoJob
    /\ runs = 0
    /\ geoUpdates = 0
    /\ failures = 0
    /\ persisted = [id \in AssetIds |-> <<>>]

NextDuration ==
    \/ \E a \in AssetIds : VideoDispatch(a)
    \/ \E a \in AssetIds : VideoProbe(a)
    \/ \E a \in AssetIds : VideoRead(a)
    \/ \E a \in AssetIds : VideoGeocode(a)
    \/ \E a \in AssetIds : VideoUpsert(a)
    \/ \E a \in AssetIds : VideoSaveAsset(a)

SpecDuration == InitDuration /\ [][NextDuration]_vars

(***************************************************************************)
(* Properties.                                                             *)
(***************************************************************************)
\* A run of extractExifInfo that returned from line 228, no error caught.
ExifCompleted(a) ==
    /\ jobs[a].kind = "exif"
    /\ jobs[a].pc = "done"
    /\ jobs[a].err = ""

\* C1: when the exif row of a video carries the content identifier X at the
\* time extractExifInfo, run for an image that carries X and has no
\* paired-video id, comes to its search, then once that run has completed
\* the image's livePhotoVideoId is that video's id and the video is not
\* visible.
C1_ImagePairsWithStoredVideo ==
    \A a \in AssetIds :
        (/\ ExifCompleted(a)
         /\ jobs[a].asset.livePhotoVideoId = Null
         /\ jobs[a].newExif.livePhotoCID # Null)
        => \A peer \in jobs[a].peers :
              peer.livePhotoCID = jobs[a].newExif.livePhotoCID
              => /\ assets[a].livePhotoVideoId = Some(peer.id)
                 /\ ~assets[peer.id].isVisible

C1_Witness ==
    \E a \in AssetIds :
        /\ ExifCompleted(a)
        /\ jobs[a].asset.livePhotoVideoId = Null
        /\ jobs[a].newExif.livePhotoCID = Some("X")
        /\ {"livePhotoVideoId", "isVisible", "exif"} \subseteq jobs[a].writes
        /\ \E peer \in jobs[a].peers :
              /\ peer.livePhotoCID = Some("X")
              /\ assets[a].livePhotoVideoId = Some(peer.id)
              /\ ~assets[peer.id].isVisible

\* C2: a run of either extractor for an asset that is already paired makes no
\* findLivePhotoMatch call and no pairing save.
C2_NoSearchWhenPaired ==
    \A a \in AssetIds :
        jobs[a].pairedAtStart
        => /\ ~jobs[a].searched
           /\ jobs[a].writes \cap {"livePhotoVideoId", "isVisible"} = {}

\* C3: whichever extractor pairs, the pointer is on the image and refers to
\* the video, the asset made not visible is the video, and no image's
\* visibility is written.
C3_PointerOnImageVideoHidden ==
    \A a \in AssetIds :
        /\ assets[a].livePhotoVideoId # Null
           => /\ assets[a].type = "IMAGE"
              /\ assets[assets[a].livePhotoVideoId[1]].type = "VIDEO"
        /\ ~assets[a].isVisible => assets[a].type = "VIDEO"
        /\ assets[a].type = "IMAGE" => assets[a].isVisible

C3_Witness ==
    \E v \in AssetIds, i \in AssetIds :
        /\ jobs[v].kind = "video"
        /\ {"livePhotoVideoId", "isVisible"} \subseteq jobs[v].writes
        /\ jobs[v].match = Some(i)
        /\ assets[i].type = "IMAGE"
        /\ assets[i].livePhotoVideoId = Some(v)
        /\ assets[i].isVisible
        /\ ~assets[v].isVisible

\* C4: isGeocodeInitialized starts false, changes only from false to true and
\* only once the gazetteer is loaded, stays true from then on, and is never
\* set when reverse geocoding is disabled.
C4_ReadinessMonotonic ==
    /\ ~isGeocodeInitialized
    /\ [](isGeocodeInitialized
            => geocoder = "loaded" /\ ~config.DISABLE_REVERSE_GEOCODING)
    /\ [][isGeocodeInitialized => isGeocodeInitialized']_vars

C4_Witness ==
    /\ isGeocodeInitialized
    /\ \E a \in AssetIds : jobs[a].enrich = Some([initialized |-> TRUE, loaded |-> TRUE])

\* C5: a job that reaches its enrichment step while the index is not loaded
\* makes no lookup, is not held up, raises no error, and resolves no place
\* field.
C5_NoLookupBeforeReady ==
    /\ \A a \in AssetIds :
          /\ (jobs[a].enrich # Null /\ ~jobs[a].enrich[1].loaded)
             => /\ ~jobs[a].lookedUp
                /\ jobs[a].result # "raised"
                /\ jobs[a].err # "lookup"
                /\ IF jobs[a].kind = "exif"
                   THEN DOMAIN jobs[a].newExif \cap {"country", "state", "city"} = {}
                   ELSE /\ jobs[a].newExif.country = Null
                        /\ jobs[a].newExif.state = Null
                        /\ jobs[a].newExif.city = Null
          /\ (jobs[a].pc = "geocode" /\ geocoder # "loaded")
             => ENABLED (ExifGeocode(a) \/ VideoGeocode(a))
    /\ (geoJob.enrich # Null /\ ~geoJob.enrich[1].loaded)
       => /\ ~geoJob.lookedUp
          /\ geoJob.place = Null
          /\ geoJob.result = "completed"
    /\ (geoJob.pc = "lookup" /\ geocoder # "loaded") => ENABLED GeoLookup

C5_Witness ==
    \E a \in AssetIds :
        /\ jobs[a].pc = "done"
        /\ jobs[a].enrich = Some([initialized |-> FALSE, loaded |-> FALSE])
        /\ TruthyNum(jobs[a].newExif.latitude)
        /\ TruthyNum(jobs[a].newExif.longitude)
        /\ "exif" \in jobs[a].writes
        /\ ~config.DISABLE_REVERSE_GEOCODING

\* C6: each of the three handlers catches every internal error: no job ends
\* with an error raised to the dispatcher.
C6_NothingRaised ==
    /\ \A a \in AssetIds : jobs[a].result # "raised"
    /\ geoJob.result # "raised"

\* C7: a run of extractVideoMetadata whose probe fails ends there, having made
\* no search, built no entity and written nothing: the step in which the
\* probe fails leaves the asset and exif tables as they were, and the run
\* takes no further step.
C7_ProbeFailureWritesNothing ==
    /\ [](\A a \in AssetIds :
            jobs[a].err = "probe"
            => /\ jobs[a].pc = "done"
               /\ jobs[a].writes = {}
               /\ ~jobs[a].searched
               /\ jobs[a].newExif = <<>>)
    /\ [][\A a \in AssetIds :
            (jobs[a].err # "probe" /\ jobs'[a].err = "probe")
            => /\ assets' = assets
               /\ exif' = exif]_vars

C7_Witness ==
    \E a \in AssetIds :
        /\ jobs[a].kind = "video"
        /\ jobs[a].err = "probe"
        /\ jobs[a].pc = "done"
        /\ \E i \in 1..Len(exif) : exif[i].assetId = a

\* C8: a run of extractExifInfo whose raster-header decode fails still upserts
\* the exif row.
C8_DecodeFailureStillUpserts ==
    \A a \in AssetIds :
        (jobs[a].kind = "exif" /\ jobs[a].pc = "done" /\ jobs[a].err = "sharp")
        => "exif" \in jobs[a].writes

\* The columns extractExifInfo takes from the tags alone.
TagColumns ==
    {"make", "model", "exposureTime", "lensModel", "fNumber", "focalLength",
     "iso", "latitude", "longitude", "livePhotoCID"}

\* C9: a failed tag read does not end the run.  In extractExifInfo every
\* column taken from the tags is null, the dimensions and the orientation
\* are null until the raster header gives them, and the two dates are the
\* asset's stored timestamps; in extractVideoMetadata the content identifier
\* is null; neither makes a pairing search; and a run in which nothing else
\* fails upserts its row.
C9_TagFailureDegrades ==
    /\ [](\A a \in AssetIds :
            (jobs[a].tagsFailed /\ jobs[a].newExif # <<>>)
            => /\ ~jobs[a].searched
               /\ jobs[a].newExif.livePhotoCID = Null
               /\ jobs[a].kind = "exif"
                  => /\ \A c \in TagColumns : jobs[a].newExif[c] = Null
                     /\ jobs[a].newExif.dateTimeOriginal
                          = Some(NewDate(jobs[a].asset.fileCreatedAt))
                     /\ jobs[a].newExif.modifyDate
                          = Some(NewDate(jobs[a].asset.fileModifiedAt))
                     /\ jobs[a].newExif.exifImageHeight
                          \in {Null, NumOrNull(file[a].raster.height)}
                     /\ jobs[a].newExif.exifImageWidth
                          \in {Null, NumOrNull(file[a].raster.width)}
                     /\ ~jobs[a].decoded
                          => /\ jobs[a].newExif.exifImageHeight = Null
                             /\ jobs[a].newExif.exifImageWidth = Null
                             /\ jobs[a].newExif.orientation = Null
               /\ (jobs[a].pc = "done" /\ jobs[a].err = "")
                  => "exif" \in jobs[a].writes)
    /\ [][\A a \in AssetIds :
            (~jobs[a].tagsFailed /\ jobs'[a].tagsFailed)
            => /\ jobs'[a].pc # "done"
               /\ jobs'[a].err = ""]_vars

C9_Witness ==
    \E a \in AssetIds :
        /\ jobs[a].kind = "exif"
        /\ jobs[a].tagsFailed
        /\ jobs[a].pc = "done"
        /\ "exif" \in jobs[a].writes
        /\ file[a].tags.MediaGroupUUID = Some("X")
        /\ file[a].tags.DateTimeOriginal # Null

\* One exif row per assetId.
OneRowPerAsset ==
    \A i, j \in 1..Len(exif) : exif[i].assetId = exif[j].assetId => i = j

\* Two entries of `persisted` come from runs that were handed the asset with
\* the same stored timestamps.
SameAsset(p, q) ==
    /\ p.fileCreatedAt = q.fileCreatedAt
    /\ p.fileModifiedAt = q.fileModifiedAt

\* C10, as stated: the next run of an extraction on the unchanged asset and
\* file leaves the row the run before it left, and no assetId has two rows.
C10_RerunLeavesSameRow ==
    /\ OneRowPerAsset
    /\ \A a \in AssetIds :
          \A i \in 1..Len(persisted[a]) - 1 :
              SameAsset(persisted[a][i], persisted[a][i + 1])
              => persisted[a][i + 1].row = persisted[a][i].row

\* C10, amended: the next run on the unchanged asset and file leaves the row
\* the run before it left when both read the tags with the same outcome and
\* saw the same readiness of the geocoder, and reverseGeocoding updated
\* nothing in between; no assetId has two rows.
C10_RerunLeavesSameRowSameInputs ==
    /\ OneRowPerAsset
    /\ \A a \in AssetIds :
          \A i \in 1..Len(persisted[a]) - 1 :
              (/\ SameAsset(persisted[a][i], persisted[a][i + 1])
               /\ persisted[a][i + 1].tagsFailed = persisted[a][i].tagsFailed
               /\ persisted[a][i + 1].enrich = persisted[a][i].enrich
               /\ persisted[a][i + 1].geoUpdates = persisted[a][i].geoUpdates)
              => persisted[a][i + 1].row = persisted[a][i].row

C10_Witness ==
    \E a \in AssetIds :
        \E i \in 1..Len(persisted[a]) - 1 :
            /\ SameAsset(persisted[a][i], persisted[a][i + 1])
            /\ ~persisted[a][i].tagsFailed
            /\ ~persisted[a][i + 1].tagsFailed
            /\ persisted[a][i + 1].enrich = persisted[a][i].enrich
            /\ persisted[a][i + 1].geoUpdates = persisted[a][i].geoUpdates
            /\ persisted[a][i + 1].row = persisted[a][i].row
            /\ persisted[a][i].row.country # Null

\* The three columns the raster header can give.
DecodedColumns == {"exifImageHeight", "exifImageWidth", "orientation"}

\* What lines 153-176 make of the tags the run of asset a read (of no tags if
\* its read failed).
FromTags(a) ==
    ExifNewExif(jobs[a].asset, FileNameOf(a),
                IF jobs[a].tagsFailed THEN EmptyTags ELSE file[a].tags,
                file[a].size)

\* The run of extractExifInfo for asset a has passed lines 212-226.
PastDecode(a) ==
    /\ jobs[a].kind = "exif"
    /\ \/ jobs[a].pc = "upsert"
       \/ jobs[a].pc = "done" /\ jobs[a].err \in {"", "upsert"}

\* C11: extractExifInfo calls the raster decoder exactly when the tags left
\* one of height, width, orientation unresolved; a column the tags resolved
\* keeps the tag's value, and a column they did not takes the decoder's.
C11_DecoderFillsOnlyUnresolved ==
    \A a \in AssetIds :
        /\ (jobs[a].kind = "exif" /\ jobs[a].pc = "sharp")
           => \E c \in DecodedColumns : FromTags(a)[c] = Null
        /\ PastDecode(a)
           => /\ jobs[a].decoded <=> \E c \in DecodedColumns : FromTags(a)[c] = Null
              /\ \A c \in DecodedColumns :
                    FromTags(a)[c] # Null => jobs[a].newExif[c] = FromTags(a)[c]
              /\ FromTags(a).exifImageHeight = Null
                    => jobs[a].newExif.exifImageHeight
                         = NumOrNull(file[a].raster.height)
              /\ FromTags(a).exifImageWidth = Null
                    => jobs[a].newExif.exifImageWidth
                         = NumOrNull(file[a].raster.width)

C11_Witness ==
    \E a \in AssetIds :
        /\ PastDecode(a)
        /\ jobs[a].pc = "done"
        /\ jobs[a].decoded
        /\ ~jobs[a].tagsFailed
        /\ FromTags(a).exifImageHeight # Null
        /\ FromTags(a).exifImageHeight # file[a].raster.height
        /\ FromTags(a).orientation = Null
        /\ jobs[a].newExif.orientation # Null

\* C12: a run of extractVideoMetadata handed an asset that is not visible
\* does nothing: it makes no probe, tag read, search, lookup, upsert or save,
\* and its one step leaves the asset table, the exif table and the record of
\* upserts as they were.
C12_HiddenVideoIsNoOp ==
    /\ [](\A a \in AssetIds :
            (jobs[a].kind = "video" /\ ~jobs[a].asset.isVisible)
            => /\ jobs[a].pc \in {"probe", "done"}
               /\ jobs[a].newExif = <<>>
               /\ jobs[a].writes = {}
               /\ jobs[a].err = ""
               /\ ~jobs[a].searched
               /\ ~jobs[a].lookedUp
               /\ ~jobs[a].tagsFailed)
    /\ [][\A a \in AssetIds :
            (/\ jobs[a].kind = "video"
             /\ ~jobs[a].asset.isVisible
             /\ jobs[a].pc = "probe"
             /\ jobs'[a] # jobs[a])
            => /\ jobs'[a].pc = "done"
               /\ jobs'[a].result = "completed"
               /\ assets' = assets
               /\ exif' = exif
               /\ persisted' = persisted
               /\ failures' = failures]_vars

C12_Witness ==
    \E a \in AssetIds :
        /\ jobs[a].kind = "video"
        /\ ~jobs[a].asset.isVisible
        /\ jobs[a].pc = "done"
        /\ jobs[a].result = "completed"
        /\ \E i \in 1..Len(exif) : exif[i].assetId = a

\* The number a string of decimal digits denotes.
DigitValue(c) == CHOOSE i \in 0..9 : DigitChar[i + 1] = c

RECURSIVE DigitsValue(_)
DigitsValue(digits) ==
    IF digits = <<>> THEN 0
    ELSE 10 * DigitsValue(SubSeq(digits, 1, Len(digits) - 1))
           + DigitValue(digits[Len(digits)])

IsDigits(digits) ==
    \A i \in 1..Len(digits) : \E k \in 1..10 : DigitChar[k] = digits[i]

\* out reads H:MM:SS.000000 and its hours, minutes and seconds add up to d.
FormatsSeconds(out, d) ==
    LET n == Len(out)
        hh == SubSeq(out, 1, n - 7)
        mm == SubSeq(out, n - 5, n - 4)
        ss == SubSeq(out, n - 2, n - 1)
    IN  /\ n >= 8
        /\ out[n] = ".000000"
        /\ out[n - 3] = ":"
        /\ out[n - 6] = ":"
        /\ IsDigits(hh) /\ IsDigits(mm) /\ IsDigits(ss)
        /\ Len(hh) > 1 => hh[1] # "0"
        /\ DigitsValue(mm) <= 59
        /\ DigitsValue(ss) <= 59
        /\ DigitsValue(hh) * 3600 + DigitsValue(mm) * 60 + DigitsValue(ss) = d

\* C13: extractDuration of a whole number d of seconds reads H:MM:SS.000000,
\* minutes and seconds of two digits and at most 59, with
\* h * 3600 + m * 60 + s = d; 3661 gives 1:01:01.000000 and 59 gives
\* 0:00:59.000000; and this is the string the handler saves as the asset's
\* duration.
C13_DurationFormat ==
    /\ extractDuration(3661 * 1000)
         = <<"1", ":", "0", "1", ":", "0", "1", ".000000">>
    /\ extractDuration(59 * 1000)
         = <<"0", ":", "0", "0", ":", "5", "9", ".000000">>
    /\ \A a \in AssetIds :
          (AssetType(a) = "VIDEO" /\ file[a].format.duration # Null)
          => LET durationMs == file[a].format.duration[1]
             IN  /\ FormatsSeconds(extractDuration(durationMs),
                                   durationMs \div 1000)
                 /\ ("duration" \in jobs[a].writes /\ durationMs # 0)
                    => assets[a].duration = Some(extractDuration(durationMs))

C13_Witness ==
    \E a \in AssetIds :
        /\ jobs[a].kind = "video"
        /\ "duration" \in jobs[a].writes
        /\ file[a].format.duration = Some(86399 * 1000)
        /\ assets[a].duration
             = Some(<<"2", "3", ":", "5", "9", ":", "5", "9", ".000000">>)

\* No job is in flight.
Quiescent ==
    /\ \A a \in AssetIds : jobs[a].pc \in {"idle", "done"}
    /\ geoJob.pc \in {"idle", "done"}

\* C14: once no job is in flight and every asset's latest run has ended
\* without an error (a failed job has been run again), the video every
\* image points to is not visible.
C14_PairingCompleteAtQuiescence ==
    (Quiescent /\ \A a \in AssetIds : jobs[a].err = "")
    => \A a \in AssetIds :
          assets[a].livePhotoVideoId # Null
          => ~assets[assets[a].livePhotoVideoId[1]].isVisible

\* C15: an image and a video that carry one content identifier, each
\* extracted once, in any interleaving and with no step failing, are linked
\* when both runs have completed.
C15_ConcurrentRunsLinkThePair ==
    \A a, b \in AssetIds :
        (/\ jobs[a].kind = "exif" /\ jobs[b].kind = "video"
         /\ runs = 2 /\ failures = 0
         /\ jobs[a].pc = "done" /\ jobs[b].pc = "done"
         /\ jobs[a].err = "" /\ jobs[b].err = ""
         /\ jobs[a].newExif.livePhotoCID # Null
         /\ jobs[b].newExif.livePhotoCID = jobs[a].newExif.livePhotoCID)
        => /\ assets[a].livePhotoVideoId = Some(b)
           /\ ~assets[b].isVisible

\* The file of asset a gave the run both coordinates: the two GPS tags of an
\* image, a location tag of a video that parsed.
CoordinatesPresent(a) ==
    IF jobs[a].kind = "exif"
    THEN /\ ~jobs[a].tagsFailed
         /\ file[a].tags.GPSLatitude # Null
         /\ file[a].tags.GPSLongitude # Null
    ELSE /\ jobs[a].newExif.latitude # Null
         /\ jobs[a].newExif.longitude # Null

\* C16: a run that has passed its enrichment step looked the place up, and
\* holds country, state and city, exactly when the index was ready and the
\* file gave both coordinates, a coordinate of 0 included.
C16_EnrichedExactlyWhenReadyAndPresent ==
    \A a \in AssetIds :
        (jobs[a].kind \in {"exif", "video"} /\ jobs[a].enrich # Null
           /\ jobs[a].err # "lookup")
        => /\ jobs[a].lookedUp
                <=> (jobs[a].enrich[1].initialized /\ CoordinatesPresent(a))
           /\ jobs[a].lookedUp
                => /\ "country" \in DOMAIN jobs[a].newExif
                   /\ jobs[a].newExif.country # Null
                   /\ jobs[a].newExif.state # Null
                   /\ jobs[a].newExif.city # Null

\* The run of extractExifInfo for asset a has passed its first save (lines
\* 178-181) and is at, or has failed in, one of the steps after it.
AfterCreatedSave(a) ==
    /\ jobs[a].kind = "exif"
    /\ \/ jobs[a].pc \in {"find", "savePointer", "saveVisible", "geocode",
                          "sharp", "upsert"}
       \/ /\ jobs[a].pc = "done"
          /\ \/ jobs[a].err \in {"find", "lookup", "sharp", "upsert"}
             \/ jobs[a].err = "save" /\ jobs[a].searched

\* C17: extractExifInfo saves the resolved creation time before the pairing,
\* enrichment and decode steps: in every run that has reached one of them,
\* and in every run one of them has failed in, the asset holds the resolved
\* creation time, and a run that failed has upserted nothing.
C17_CreatedAtSavedBeforeLaterSteps ==
    \A a \in AssetIds :
        AfterCreatedSave(a)
        => /\ "fileCreatedAt" \in jobs[a].writes
           /\ Some(assets[a].fileCreatedAt) = jobs[a].newExif.dateTimeOriginal
           /\ jobs[a].pc = "done" => "exif" \notin jobs[a].writes

C17_Witness ==
    \E a \in AssetIds :
        /\ AfterCreatedSave(a)
        /\ jobs[a].pc = "done"
        /\ jobs[a].err \in {"find", "lookup", "sharp"}
        /\ assets[a].fileCreatedAt # NewDate(jobs[a].asset.fileCreatedAt)
        /\ \A i \in 1..Len(exif) : exif[i].assetId # a

\* The positions of the video-type streams of a container.
VideoStreams(streams) ==
    {i \in 1..Len(streams) : streams[i].codec_type = "video"}

\* The fps the rate string of one stream gives, Null when the string is
\* absent or does not split into exactly two parts.
StreamFps(stream) ==
    IF stream.r_frame_rate # Null /\ Len(stream.r_frame_rate[1]) = 2
    THEN Some(RoundDiv(stream.r_frame_rate[1][1], stream.r_frame_rate[1][2]))
    ELSE Null

\* C18: the row extractVideoMetadata upserts takes width, height, orientation
\* and fps from the last video stream alone: fps is unset when that
\* stream's rate string is absent or not of two parts.
C18_LastVideoStreamWins ==
    \A a \in AssetIds :
        (jobs[a].kind = "video" /\ "exif" \in jobs[a].writes
           /\ VideoStreams(file[a].streams) # {})
        => LET last == file[a].streams[
                          CHOOSE i \in VideoStreams(file[a].streams) :
                             \A j \in VideoStreams(file[a].streams) : j <= i]
           IN  /\ jobs[a].newExif.exifImageWidth = NumOrNull(last.width)
               /\ jobs[a].newExif.exifImageHeight = NumOrNull(last.height)
               /\ last.rotation = Null => jobs[a].newExif.orientation = Null
               /\ jobs[a].newExif.fps = StreamFps(last)

\* The coordinates a location string of Encoding A denotes: a latitude, a
\* longitude and the closing slash, nothing else.
EncodingA(location) ==
    IF Len(location) = 3 /\ location[1].num /\ location[2].num
       /\ location[3] = Slash
    THEN Some(<<location[1].val, location[2].val>>)
    ELSE Null

\* The same for Encoding B: latitude, longitude, altitude and the slash.
EncodingB(location) ==
    IF Len(location) = 4 /\ location[1].num /\ location[2].num
       /\ location[3].num /\ location[4] = Slash
    THEN Some(<<location[1].val, location[2].val>>)
    ELSE Null

\* C19: the row extractVideoMetadata upserts holds the latitude and the
\* longitude that Encoding A reads in the generic location tag or, when that
\* tag is absent, that Encoding B reads in the ISO6709 tag; a value of the
\* wrong number of components gives no coordinates, and never one
\* coordinate without the other.
C19_CoordinatesFromOneWellFormedTag ==
    \A a \in AssetIds :
        (jobs[a].kind = "video" /\ "exif" \in jobs[a].writes)
        => LET videoTags == file[a].format.tags
               parsed ==
                   IF videoTags = Null THEN Null
                   ELSE IF TruthySeq(videoTags[1].location)
                   THEN EncodingA(videoTags[1].location[1])
                   ELSE IF TruthySeq(videoTags[1].ISO6709)
                   THEN EncodingB(videoTags[1].ISO6709[1])
                   ELSE Null
           IN  /\ (jobs[a].newExif.latitude = Null)
                    <=> (jobs[a].newExif.longitude = Null)
               /\ parsed = Null => jobs[a].newExif.latitude = Null
               /\ parsed # Null
                    => /\ jobs[a].newExif.latitude = Some(parsed[1][1])
                       /\ jobs[a].newExif.longitude = Some(parsed[1][2])

\* C20: no step of a handler makes an asset visible that was not, and the
\* last save of extractVideoMetadata (line 358) leaves every asset's
\* visibility and pointer as they were.
C20_VisibilityOnlyLowered ==
    /\ [][\A a \in AssetIds : ~assets[a].isVisible => ~assets'[a].isVisible]_vars
    /\ [][\A a \in AssetIds :
            ("duration" \notin jobs[a].writes /\ "duration" \in jobs'[a].writes)
            => \A b \in AssetIds :
                  /\ assets'[b].isVisible = assets[b].isVisible
                  /\ assets'[b].livePhotoVideoId = assets[b].livePhotoVideoId]_vars

C20_Witness ==
    \E a \in AssetIds :
        /\ jobs[a].kind = "video"
        /\ jobs[a].asset.isVisible
        /\ "duration" \in jobs[a].writes
        /\ "isVisible" \notin jobs[a].writes
        /\ ~assets[a].isVisible
        /\ \E b \in AssetIds : assets[b].livePhotoVideoId = Some(a)

====
